---- MODULE Spec2Model ----
(***************************************************************************)
(* Flash-loan arbitrage: the on-chain engine BaseFlashLoanArbitrage        *)
(* (Solidity, src/unnamed/part_000) and the off-chain control loop         *)
(* (src/server/index.js).                                                  *)
(*                                                                         *)
(* Spec     : the engine.  A transaction is a sequence of steps separated  *)
(*            by the engine's external calls (the two router swaps); a     *)
(*            failed require restores the snapshot taken at its start.     *)
(* CtlSpec  : the controller.  Every await of the loop is a step.          *)
(***************************************************************************)
EXTENDS Integers, Sequences, FiniteSets, TLC

\* ------------------------------------------------------------------ bounds
MaxAmount   == 2    \* loan amounts 1..MaxAmount
MaxPremium  == 1    \* facility premium 0..MaxPremium
MaxOut      == 3    \* a swap returns 0..MaxOut
MaxResidual == 1    \* balance the engine holds before the first run
MaxHeld     == 2    \* no new transaction once the engine holds more than this
MaxLoops    == 2    \* control loops that can be alive at the same time
MaxUint     == 16777215  \* the largest uint: 256 bits scaled down to 24
MaxPairs    == 3    \* pairs the feed returns for a token (mixed feeds)
ManyPairs   == 6    \* pairs the feed returns for a token (crowded feeds)

\* --------------------------------------------------------------- addresses
OWNER    == "owner"
POOL     == "pool"
ENGINE   == "engine"
ROUTER   == "router"
ATTACKER == "attacker"
Addresses == {OWNER, POOL, ENGINE, ROUTER, ATTACKER}
Tokens    == {"WETH", "USDC"}

\* ------------------------------------------------------------ Settings
InitMinProfitBasisPoints == 50
InitMaxGasPrice          == 50
InitMaxSlippage          == 300
GasPrices == {InitMaxGasPrice - 1, InitMaxGasPrice, InitMaxGasPrice + 1}

NOT_ENTERED == "NOT_ENTERED"
ENTERED     == "ENTERED"

VARIABLES
  chain,   \* the ledger state the engine reads and writes
  pre,     \* the ledger state at the start of the current / last transaction
  tx,      \* the transaction in progress (pc = "idle" when none)
  last,    \* the outcome of the last finished top-level call
  reent    \* the outcome of the last call made into the engine from inside
           \* one of its external calls

engVars == <<chain, pre, tx, last, reent>>

VARIABLES
  contract,      \* the server holds a contract object (contract !== null)
  isMonitoring,  \* the run flag
  pc,            \* per loop: the await it is suspended at ("idle": no loop)
  opportunities, \* per loop: what the scan of the current iteration returned
  best,          \* per loop: bestOpportunity of the current iteration
  sub,           \* per loop: the submission built by executeArbitrage
  outcome,       \* per loop: what executeArbitrage returned this iteration
  waitMs,        \* per loop: the interval of the timer it sleeps on
  stoppedInWait, \* loops that were sleeping when stop was last called
  stoppedInFlight, \* loops that had a submission in flight when stop was called
  reply          \* what POST /api/start-bot last answered

ctlVars == <<contract, isMonitoring, pc, opportunities, best, sub, outcome,
             waitMs, stoppedInWait, stoppedInFlight, reply>>
VARIABLES
  quoted,        \* the last call of calculateArbitrageOpportunity: what it
                 \* was given, what the quoter answered, what it returned
  feed,          \* what the price feed answers for each monitored token
  scanned        \* what findArbitrageOpportunities returned for that feed

pureVars == <<quoted, feed, scanned>>

vars == <<chain, pre, tx, last, reent, contract, isMonitoring, pc,
          opportunities, best, sub, outcome, waitMs, stoppedInWait,
          stoppedInFlight, reply, quoted, feed, scanned>>

\* ArbitrageParams (fee1, fee2 only select the pool the router quotes from;
\* the router's output is chosen freely, so they carry no state here)
ArbitrageParams == [tokenIn : Tokens, tokenOut : Tokens, useAerodrome : BOOLEAN]

NoParams == [tokenIn |-> "WETH", tokenOut |-> "WETH", useAerodrome |-> FALSE]

IdleTx == [pc |-> "idle", op |-> "none", viaPool |-> FALSE, asset |-> "WETH",
           amount |-> 0, premium |-> 0, params |-> NoParams,
           startBalance |-> 0, firstSwapOut |-> 0, assetBefore |-> 0]

NoSettings == [minProfitBasisPoints |-> 0, maxGasPrice |-> 0,
               maxSlippage |-> 0]
\* caller: who made the top-level call; paidTo: who a withdrawal paid; given:
\* the arguments of an updateSettings that passed its modifier; useAerodrome,
\* secondSwapOut: the route of leg 2 and the amount it reported
NoCall == [op |-> "none", sender |-> "none", initiator |-> "none",
           result |-> "none", asset |-> "WETH", amount |-> 0, premium |-> 0,
           gasPrice |-> 0, profit |-> 0, startBalance |-> 0, endBalance |-> 0,
           assetBefore |-> 0, assetAfter |-> 0, caller |-> "none",
           paidTo |-> "none", given |-> NoSettings, useAerodrome |-> FALSE,
           secondSwapOut |-> 0]

NoReent == [op |-> "none", sender |-> "none", initiator |-> "none",
            result |-> "none"]

\* ------------------------------------------------------- ERC20 bookkeeping
Credit(c, t, n) == [c EXCEPT !.bal[t] = @ + n]
approve(c, spender, t, n) == [c EXCEPT !.allow[spender][t] = n]
CanTransferFrom(c, spender, t, n) == c.allow[spender][t] >= n /\ c.bal[t] >= n
transferFrom(c, spender, t, n) ==
  [c EXCEPT !.bal[t] = @ - n, !.allow[spender][t] = @ - n]

\* a failed require / revert: every effect of the transaction is undone
RevertKeepsSwaps(c, snapshot) == [snapshot EXCEPT !.bal = c.bal]
RevertKeepsGuard(c, snapshot) == [snapshot EXCEPT !.status = c.status]
Revert(c, snapshot) == snapshot

\* ------------------------------------------------------------ the guards
RequestGuardAtOrAbove(c, sender, gasPrice) ==
  IF sender # OWNER THEN "AccessDenied"
  ELSE IF c.status = ENTERED THEN "ReentrancyBlocked"
  ELSE IF gasPrice >= c.maxGasPrice THEN "GasPriceExceeded"
  ELSE "ok"
RequestGuardDeployedCap(c, sender, gasPrice) ==
  IF sender # OWNER THEN "AccessDenied"
  ELSE IF c.status = ENTERED THEN "ReentrancyBlocked"
  ELSE IF gasPrice > InitMaxGasPrice THEN "GasPriceExceeded"
  ELSE "ok"
\* modifiers onlyOwner, nonReentrant, then require(tx.gasprice <= maxGasPrice)
RequestGuard(c, sender, gasPrice) ==
  IF sender # OWNER THEN "AccessDenied"
  ELSE IF c.status = ENTERED THEN "ReentrancyBlocked"
  ELSE IF gasPrice > c.maxGasPrice THEN "GasPriceExceeded"
  ELSE "ok"

ExecuteOperationGuardInitiatorFirst(sender, initiator) ==
  IF initiator # ENGINE THEN "InvalidInitiator"
  ELSE IF sender # POOL THEN "InvalidCaller"
  ELSE "ok"
ExecuteOperationGuardNoInitiator(sender, initiator) ==
  IF sender # POOL THEN "InvalidCaller" ELSE "ok"
\* the two requires that open executeOperation
ExecuteOperationGuard(sender, initiator) ==
  IF sender # POOL THEN "InvalidCaller"
  ELSE IF initiator # ENGINE THEN "InvalidInitiator"
  ELSE "ok"

\* ------------------------------------------------------- the router (env)
\* exactInputSingle pulls amountIn of tIn from the engine and pays out of tOut
RouterAccepts(c, tIn, tOut, amountIn) ==
  /\ tIn # tOut
  /\ amountIn > 0
  /\ CanTransferFrom(c, ROUTER, tIn, amountIn)
RouterSwap(c, tIn, tOut, amountIn, out) ==
  Credit(transferFrom(c, ROUTER, tIn, amountIn), tOut, out)

\* ------------------------------------------------------------- Init
\* the ledger after deployment: default Settings, guard free, no approval;
\* anybody may have sent the engine tokens
InitialChains ==
  [bal : [Tokens -> 0..MaxResidual],
   allow : {[s \in {ROUTER, POOL} |-> [t \in Tokens |-> 0]]},
   minProfitBasisPoints : {InitMinProfitBasisPoints},
   maxGasPrice : {InitMaxGasPrice},
   maxSlippage : {InitMaxSlippage},
   status : {NOT_ENTERED},
   eth : {0},
   logs : {<< >>}]

\* ------------------------------------------------- ending a transaction
Abort(snapshot, info) ==
  /\ chain' = Revert(chain, snapshot)
  /\ pre' = snapshot
  /\ tx' = IdleTx
  /\ last' = info
  /\ reent' = NoReent

CallInfo(op, sender, initiator, result, asset, amount, premium, gasPrice) ==
  [NoCall EXCEPT !.op = op, !.sender = sender, !.initiator = initiator,
                 !.result = result, !.asset = asset, !.amount = amount,
                 !.premium = premium, !.gasPrice = gasPrice,
                 !.caller = sender]

\* a call rejected by its opening checks: who called, and the reason
Rejected(info, reason) ==
  [NoCall EXCEPT !.op = info.op, !.sender = info.sender,
                 !.initiator = info.initiator, !.gasPrice = info.gasPrice,
                 !.result = reason, !.caller = info.caller]

TxInfo(result) ==
  [NoCall EXCEPT !.op = tx.op, !.sender = last.sender,
                 !.initiator = last.initiator, !.gasPrice = last.gasPrice,
                 !.result = result, !.asset = tx.asset, !.amount = tx.amount,
                 !.premium = tx.premium, !.startBalance = tx.startBalance,
                 !.assetBefore = tx.assetBefore, !.caller = last.caller]

\* executeOperation up to its first external call (the router, leg 1)
EnterExecuteOperation(c, snapshot, info, viaPool, p) ==
  LET g == ExecuteOperationGuard(info.sender, info.initiator) IN
  IF g # "ok"
  THEN Abort(snapshot, Rejected(info, g))
  ELSE /\ chain' = approve(c, ROUTER, p.tokenIn, info.amount)
       /\ pre' = snapshot
       /\ tx' = [pc |-> "swap1", op |-> info.op, viaPool |-> viaPool,
                 asset |-> info.asset, amount |-> info.amount,
                 premium |-> info.premium, params |-> p,
                 startBalance |-> c.bal[p.tokenIn], firstSwapOut |-> 0,
                 assetBefore |-> c.bal[info.asset]]
       /\ last' = [info EXCEPT !.result = "pending"]
       /\ reent' = NoReent

\* executeOperation after leg 2, then the facility's withdrawal
Finish(c, secondSwapOut) ==
  LET endBalance == c.bal[tx.params.tokenIn]
      profit     == IF endBalance > tx.startBalance
                    THEN endBalance - tx.startBalance ELSE 0
      totalDebt  == tx.amount + tx.premium
      info       == [TxInfo("ok") EXCEPT !.profit = profit,
                        !.endBalance = endBalance,
                        !.assetAfter = c.bal[tx.asset],
                        !.useAerodrome = tx.params.useAerodrome,
                        !.secondSwapOut = secondSwapOut]
  IN
  IF c.bal[tx.asset] < totalDebt
  THEN Abort(pre, [info EXCEPT !.result = "InsufficientRepayment"])
  ELSE IF profit = 0
  THEN Abort(pre, [info EXCEPT !.result = "UnprofitableTrade"])
  ELSE LET c1 == approve(c, POOL, tx.asset, totalDebt)
           c2 == [c1 EXCEPT !.logs = Append(@,
                     [asset |-> tx.asset, borrowAmount |-> tx.amount,
                      profit |-> profit])]
           c3 == IF tx.viaPool THEN transferFrom(c2, POOL, tx.asset, totalDebt)
                 ELSE c2
           c4 == IF tx.op = "requestExecution"
                 THEN [c3 EXCEPT !.status = NOT_ENTERED] ELSE c3
       IN /\ chain' = c4
          /\ tx' = IdleTx
          /\ last' = info
          /\ reent' = NoReent
          /\ UNCHANGED pre

\* ------------------------------------------------------------- actions
\* a transaction starts with an empty receipt
Fresh == [chain EXCEPT !.logs = << >>]
CanStart == tx.pc = "idle" /\ \A t \in Tokens : chain.bal[t] <= MaxHeld

\* the owner-gated entry point: guards, then POOL.flashLoanSimple, which
\* pays the loan and calls executeOperation with initiator = msg.sender
executeFlashLoanArbitrage(sender, gasPrice, asset, amount, premium, p) ==
  /\ CanStart
  /\ UNCHANGED <<ctlVars, pureVars>>
  /\ LET g    == RequestGuard(Fresh, sender, gasPrice)
         info == CallInfo("requestExecution", sender, ENGINE, g, asset,
                          amount, premium, gasPrice)
     IN IF g # "ok"
        THEN Abort(Fresh, Rejected(info, g))
        ELSE EnterExecuteOperation(
               Credit([Fresh EXCEPT !.status = ENTERED], asset, amount),
               Fresh, [info EXCEPT !.sender = POOL], TRUE, p)

\* executeOperation called directly, outside any loan
executeOperation(sender, initiator, asset, amount, premium, p) ==
  /\ CanStart
  /\ UNCHANGED <<ctlVars, pureVars>>
  /\ EnterExecuteOperation(Fresh, Fresh,
        CallInfo("executeOperation", sender, initiator, "none", asset,
                 amount, premium, 0), FALSE, p)

\* somebody else asks the facility for a loan with the engine as receiver
foreignFlashLoan(initiator, asset, amount, premium, p) ==
  /\ CanStart
  /\ UNCHANGED <<ctlVars, pureVars>>
  /\ EnterExecuteOperation(Credit(Fresh, asset, amount), Fresh,
        CallInfo("foreignFlashLoan", POOL, initiator, "none", asset,
                 amount, premium, 0), TRUE, p)

\* _swapAerodrome: pure, returns its input amount
_swapAerodrome(amountIn) == amountIn

\* leg 1 returns (or reverts)
swapLeg1(out, ok) ==
  /\ tx.pc = "swap1"
  /\ UNCHANGED <<ctlVars, pureVars>>
  /\ LET p == tx.params IN
     IF ~ok \/ ~RouterAccepts(chain, p.tokenIn, p.tokenOut, tx.amount)
     THEN Abort(pre, TxInfo("SwapFailed"))
     ELSE LET c1 == RouterSwap(chain, p.tokenIn, p.tokenOut, tx.amount, out)
          IN IF p.useAerodrome
             THEN \* _swapAerodrome is a placeholder: no token moves
                  Finish(c1, _swapAerodrome(out))
             ELSE /\ chain' = approve(c1, ROUTER, p.tokenOut, out)
                  /\ tx' = [tx EXCEPT !.pc = "swap2", !.firstSwapOut = out]
                  /\ UNCHANGED <<pre, last, reent>>

\* leg 2 through the router returns (or reverts)
swapLeg2(out, ok) ==
  /\ tx.pc = "swap2"
  /\ UNCHANGED <<ctlVars, pureVars>>
  /\ LET p == tx.params IN
     IF ~ok \/ ~RouterAccepts(chain, p.tokenOut, p.tokenIn, tx.firstSwapOut)
     THEN Abort(pre, TxInfo("SwapFailed"))
     ELSE Finish(RouterSwap(chain, p.tokenOut, p.tokenIn, tx.firstSwapOut,
                            out), out)

\* calls made into the engine while it waits for the router
reenterExecuteOperation(sender, initiator) ==
  /\ tx.pc \in {"swap1", "swap2"}
  /\ reent' = [op |-> "executeOperation", sender |-> sender,
               initiator |-> initiator,
               result |-> ExecuteOperationGuard(sender, initiator)]
  /\ UNCHANGED <<chain, pre, tx, last>>
  /\ UNCHANGED <<ctlVars, pureVars>>

reenterExecuteFlashLoanArbitrage(sender, gasPrice) ==
  /\ tx.pc \in {"swap1", "swap2"}
  /\ reent' = [op |-> "requestExecution", sender |-> sender,
               initiator |-> "none",
               result |-> RequestGuard(chain, sender, gasPrice)]
  /\ UNCHANGED <<chain, pre, tx, last>>
  /\ UNCHANGED <<ctlVars, pureVars>>

\* ------------------------------------------- the owner's other operations
\* the Settings an owner may write: updateSettings checks no bound
SettingsChoices ==
  {[minProfitBasisPoints |-> InitMinProfitBasisPoints,
    maxGasPrice |-> InitMaxGasPrice, maxSlippage |-> InitMaxSlippage],
   [minProfitBasisPoints |-> 0,
    maxGasPrice |-> InitMaxGasPrice - 1, maxSlippage |-> 0]}

onlyOwnerOrRouter(sender) == sender \in {OWNER, ROUTER}
\* modifier onlyOwner
onlyOwner(sender) == sender = OWNER

\* a top-level call that is no flash loan ends in one step
Done(c, info) ==
  /\ chain' = c
  /\ pre' = Fresh
  /\ tx' = IdleTx
  /\ last' = info
  /\ reent' = NoReent

updateSettingsKeepsSlippage(sender, new) ==
  /\ tx.pc = "idle"
  /\ UNCHANGED <<ctlVars, pureVars>>
  /\ LET info == CallInfo("updateSettings", sender, "none", "ok", "WETH",
                          0, 0, 0)
     IN IF ~onlyOwner(sender)
        THEN Abort(Fresh, Rejected(info, "AccessDenied"))
        ELSE Done([Fresh EXCEPT
                     !.minProfitBasisPoints = new.minProfitBasisPoints,
                     !.maxGasPrice = new.maxGasPrice],
                  [info EXCEPT !.given = new])
updateSettings(sender, new) ==
  /\ tx.pc = "idle"
  /\ UNCHANGED <<ctlVars, pureVars>>
  /\ LET info == CallInfo("updateSettings", sender, "none", "ok", "WETH",
                          0, 0, 0)
     IN IF ~onlyOwner(sender)
        THEN Abort(Fresh, Rejected(info, "AccessDenied"))
        ELSE Done([Fresh EXCEPT
                     !.minProfitBasisPoints = new.minProfitBasisPoints,
                     !.maxGasPrice = new.maxGasPrice,
                     !.maxSlippage = new.maxSlippage],
                  [info EXCEPT !.given = new])

withdrawProfitsWithoutRequire(sender, token) ==
  /\ tx.pc = "idle"
  /\ UNCHANGED <<ctlVars, pureVars>>
  /\ LET balance == chain.bal[token]
         info == [CallInfo("withdrawProfits", sender, "none", "ok", token,
                           balance, 0, 0) EXCEPT !.paidTo = OWNER]
     IN IF ~onlyOwner(sender)
        THEN Abort(Fresh, Rejected(info, "AccessDenied"))
        ELSE Done([Fresh EXCEPT !.bal[token] = 0,
                     !.logs = <<[token |-> token, amount |-> balance]>>], info)
\* the whole balance of one token goes to the owner, ProfitWithdrawn is emitted
withdrawProfits(sender, token) ==
  /\ tx.pc = "idle"
  /\ UNCHANGED <<ctlVars, pureVars>>
  /\ LET balance == chain.bal[token]
         info == [CallInfo("withdrawProfits", sender, "none", "ok", token,
                           balance, 0, 0) EXCEPT !.paidTo = OWNER]
     IN IF ~onlyOwner(sender)
        THEN Abort(Fresh, Rejected(info, "AccessDenied"))
        ELSE IF balance = 0
        THEN Abort(Fresh, [info EXCEPT !.result = "NothingToWithdraw",
                                       !.paidTo = "none"])
        ELSE Done([Fresh EXCEPT !.bal[token] = 0,
                     !.logs = <<[token |-> token, amount |-> balance]>>], info)

\* the native balance goes to the owner; no event is emitted
withdrawETH(sender) ==
  /\ tx.pc = "idle"
  /\ UNCHANGED <<ctlVars, pureVars>>
  /\ LET balance == chain.eth
         info == [CallInfo("withdrawReserve", sender, "none", "ok", "WETH",
                           balance, 0, 0) EXCEPT !.paidTo = OWNER]
     IN IF ~onlyOwner(sender)
        THEN Abort(Fresh, Rejected(info, "AccessDenied"))
        ELSE IF balance = 0
        THEN Abort(Fresh, [info EXCEPT !.result = "NothingToWithdraw",
                                       !.paidTo = "none"])
        ELSE Done([Fresh EXCEPT !.eth = 0], info)

\* receive() external payable: anybody may send the engine ether
receive(sender, value) ==
  /\ tx.pc = "idle"
  /\ chain.eth + value <= MaxResidual
  /\ UNCHANGED <<ctlVars, pureVars>>
  /\ Done([Fresh EXCEPT !.eth = @ + value],
          CallInfo("receive", sender, "none", "ok", "WETH", value, 0, 0))

\* who can call: the facility calls executeOperation only from inside
\* flashLoanSimple, with initiator = the caller of flashLoanSimple
Outsiders == Addresses \ {POOL, ENGINE}

\* executeOperation can be reached directly (any initiator), or through the
\* facility on a loan asked by somebody other than the engine
ReentrantCalls == (Outsiders \X Addresses) \cup ({POOL} \X Outsiders)

\* the arguments that no opening check reads are drawn only once the checks
\* have passed: a rejected call ends in the same state whatever they are
LoanArgs == (Tokens \X (1..MaxAmount)) \X ((0..MaxPremium) \X ArbitrageParams)
FirstArgs == CHOOSE a \in LoanArgs : TRUE
ArgsFor(passes) == IF passes THEN LoanArgs ELSE {FirstArgs}

NextEngine ==
  \/ \E s \in Outsiders, g \in GasPrices :
        \E a \in ArgsFor(RequestGuard(Fresh, s, g) = "ok") :
           executeFlashLoanArbitrage(s, g, a[1][1], a[1][2], a[2][1], a[2][2])
  \/ \E s \in Outsiders, i \in Addresses :
        \E a \in ArgsFor(ExecuteOperationGuard(s, i) = "ok") :
           executeOperation(s, i, a[1][1], a[1][2], a[2][1], a[2][2])
  \/ \E i \in Outsiders :
        \E a \in ArgsFor(ExecuteOperationGuard(POOL, i) = "ok") :
           foreignFlashLoan(i, a[1][1], a[1][2], a[2][1], a[2][2])
  \/ \E out \in 0..MaxOut, ok \in BOOLEAN : swapLeg1(out, ok)
  \/ \E out \in 0..MaxOut, ok \in BOOLEAN : swapLeg2(out, ok)
  \/ \E c \in ReentrantCalls : reenterExecuteOperation(c[1], c[2])
  \/ \E s \in Outsiders, g \in GasPrices :
        reenterExecuteFlashLoanArbitrage(s, g)

\* the owner-gated entry points and the ether the engine is sent
NextOwner ==
  \/ \E s \in Outsiders, g \in GasPrices :
        \E a \in ArgsFor(RequestGuard(Fresh, s, g) = "ok") :
           executeFlashLoanArbitrage(s, g, a[1][1], a[1][2], a[2][1], a[2][2])
  \/ \E out \in 0..MaxOut, ok \in BOOLEAN : swapLeg1(out, ok)
  \/ \E out \in 0..MaxOut, ok \in BOOLEAN : swapLeg2(out, ok)
  \/ \E s \in Outsiders, new \in SettingsChoices : updateSettings(s, new)
  \/ \E s \in Outsiders, t \in Tokens : withdrawProfits(s, t)
  \/ \E s \in Outsiders : withdrawETH(s)
  \/ \E s \in Outsiders, v \in 1..MaxResidual : receive(s, v)

\* ------------------------------------------------ engine claims C1 .. C6
Succeeded == tx.pc = "idle" /\ last.op = "requestExecution" /\ last.result = "ok"
Failed    == tx.pc = "idle" /\ last.op = "requestExecution"
                /\ last.result \notin {"ok", "none"}

\* C1: when requestExecution, or the callback it triggers, fails at any step,
\* balances, approvals, the guard, the Settings and the receipt are exactly
\* what they were before the call: nothing of the attempt remains.
C1_Atomicity == Failed => chain = pre

\* a failure that came after both swaps had moved tokens
C1_Witness ==
  /\ Failed /\ last.result = "UnprofitableTrade"
  /\ last.endBalance # last.startBalance
  /\ chain = pre

\* C2: after a successful execution and the facility's withdrawal the engine
\* holds strictly more of the borrowed asset than before the loan.
C2_StrictlyPositiveReturn ==
  Succeeded => chain.bal[last.asset] > pre.bal[last.asset]

\* C3: a successful execution has profit > 0, the engine's balance of the
\* borrowed asset after leg 2 is its balance before leg 1 plus profit, and the
\* receipt holds exactly one completion record (asset, amount, profit); a
\* failed attempt leaves no record.
C3_ProfitIsAssetGain ==
  /\ Succeeded =>
       /\ last.profit > 0
       /\ last.assetAfter = last.assetBefore + last.profit
       /\ chain.logs = << [asset |-> last.asset, borrowAmount |-> last.amount,
                           profit |-> last.profit] >>
  /\ Failed => chain.logs = << >>

\* C4: executeOperation called by anyone but the facility fails with
\* InvalidCaller whatever the initiator (the engine's address included) and
\* the other arguments, and changes nothing.
C4_InvalidCaller ==
  /\ (tx.pc = "idle" /\ last.op = "executeOperation" /\ last.sender # POOL)
        => (last.result = "InvalidCaller" /\ chain = pre)
  /\ (reent.op = "executeOperation" /\ reent.sender # POOL)
        => reent.result = "InvalidCaller"
  /\ tx.pc # "idle" => last.sender = POOL

C4_Witness ==
  /\ tx.pc = "idle" /\ last.op = "executeOperation"
  /\ last.sender = ATTACKER /\ last.initiator = ENGINE
  /\ last.result = "InvalidCaller"

\* C5: executeOperation called by the facility for a loan somebody else
\* initiated fails with InvalidInitiator before any swap: no swap stage is
\* ever entered with an initiator other than the engine.
C5_InvalidInitiator ==
  /\ (tx.pc = "idle" /\ last.op = "foreignFlashLoan")
        => (last.result = "InvalidInitiator" /\ chain = pre)
  /\ (reent.op = "executeOperation" /\ reent.sender = POOL
         /\ reent.initiator # ENGINE) => reent.result = "InvalidInitiator"
  /\ tx.pc # "idle" => last.initiator = ENGINE

C5_Witness ==
  /\ tx.pc = "idle" /\ last.op = "foreignFlashLoan"
  /\ last.sender = POOL /\ last.initiator = ATTACKER
  /\ last.result = "InvalidInitiator"

\* C6: a call of executeOperation made while one is in progress is rejected
\* with ReentrancyBlocked.
C6_ReentrancyBlocked ==
  reent.op = "executeOperation" => reent.result = "ReentrancyBlocked"


\* ------------------------------------------------------- the quote
\* what the quoter does when asked: it answers an amount, or the call fails
QuoteOuts == {0, 1, 999, 1000, 1004, 1005, 1050, 1060, 3000}
QuoterAnswers == [ok : {TRUE}, amountOut : QuoteOuts]
                   \cup {[ok |-> FALSE, amountOut |-> 0]}
TestAmounts == {0, 1, 1000}

\* try QUOTER.quoteExactInputSingle(...) returns (quote) / catch: return 0
_getUniswapQuote(answer) == IF answer.ok THEN answer.amountOut ELSE 0

\* what calculateArbitrageOpportunity returns, or that it reverted
\* (checked arithmetic: an overflow or a division by zero panics)
QuoteResult(reverted, profitable, expectedProfit, optimalAmount) ==
  [reverted |-> reverted, profitable |-> profitable,
   expectedProfit |-> expectedProfit, optimalAmount |-> optimalAmount]

calculateArbitrageOpportunityStrictlyAbove(c, testAmount, answer1, answer2) ==
  LET quote1 == _getUniswapQuote(answer1)
      quote2 == _getUniswapQuote(answer2)
      profit == quote2 - testAmount
  IN IF quote2 > testAmount
     THEN IF profit * 10000 > MaxUint \/ testAmount = 0
          THEN QuoteResult(TRUE, FALSE, 0, 0)
          ELSE QuoteResult(FALSE,
                 (profit * 10000) \div testAmount > c.minProfitBasisPoints,
                 profit, testAmount)
     ELSE QuoteResult(FALSE, FALSE, 0, 0)
calculateArbitrageOpportunity(c, testAmount, answer1, answer2) ==
  LET quote1 == _getUniswapQuote(answer1)
      quote2 == _getUniswapQuote(answer2)
      profit == quote2 - testAmount
  IN IF quote2 > testAmount
     THEN IF profit * 10000 > MaxUint \/ testAmount = 0
          THEN QuoteResult(TRUE, FALSE, 0, 0)
          ELSE QuoteResult(FALSE,
                 (profit * 10000) \div testAmount >= c.minProfitBasisPoints,
                 profit, testAmount)
     ELSE QuoteResult(FALSE, FALSE, 0, 0)

NoQuote == [called |-> FALSE, testAmount |-> 0,
            answer1 |-> [ok |-> FALSE, amountOut |-> 0],
            answer2 |-> [ok |-> FALSE, amountOut |-> 0],
            minProfitBasisPoints |-> 0,
            result |-> QuoteResult(FALSE, FALSE, 0, 0)]

\* anybody calls calculateArbitrageOpportunity; the quoter is asked twice,
\* the second time for the amount the first quote gave
quoteOpportunity(testAmount, answer1, answer2) ==
  /\ tx.pc = "idle"
  /\ quoted' = [called |-> TRUE, testAmount |-> testAmount,
                answer1 |-> answer1, answer2 |-> answer2,
                minProfitBasisPoints |-> chain.minProfitBasisPoints,
                result |-> calculateArbitrageOpportunity(chain, testAmount,
                                                         answer1, answer2)]
  /\ UNCHANGED <<engVars, ctlVars, feed, scanned>>

NextQuote ==
  \/ \E t \in TestAmounts, a1 \in QuoterAnswers, a2 \in QuoterAnswers :
        quoteOpportunity(t, a1, a2)
  \/ \E s \in Outsiders, new \in SettingsChoices : updateSettings(s, new)

\* ------------------------------------------------ engine claims C12 .. C14
OwnerOps == {"requestExecution", "updateSettings", "withdrawProfits",
             "withdrawReserve"}

\* C12: requestExecution, updateSettings, withdrawProfits and withdrawReserve
\* called by anyone but the owner fail with AccessDenied and change nothing,
\* whatever the engine's balances and Settings are at that moment.
C12_OwnerOnly ==
  (last.op \in OwnerOps /\ last.caller # OWNER)
     => (tx.pc = "idle" /\ last.result = "AccessDenied" /\ chain = pre)

\* a stranger asks for the tokens the engine holds
C12_Witness ==
  /\ last.op = "withdrawProfits" /\ last.caller = ATTACKER
  /\ last.result = "AccessDenied"
  /\ chain.bal[last.asset] > 0

\* C13: the owner's requestExecution at a gas price strictly above the current
\* maxGasPrice fails with GasPriceExceeded before any loan is requested and
\* changes nothing; at a gas price equal to the cap (or below) it is not
\* rejected for its gas price.
C13_GasCap ==
  (last.op = "requestExecution" /\ last.caller = OWNER) =>
     IF last.gasPrice > pre.maxGasPrice
     THEN tx.pc = "idle" /\ last.result = "GasPriceExceeded" /\ chain = pre
     ELSE last.result # "GasPriceExceeded"

\* one unit above the cap is rejected
C13_Witness ==
  /\ last.op = "requestExecution" /\ last.caller = OWNER
  /\ last.gasPrice = pre.maxGasPrice + 1
  /\ last.result = "GasPriceExceeded"

\* C14: the Settings are read at each attempt: once updateSettings has changed
\* maxGasPrice, the very next requestExecution of the owner is accepted or
\* rejected by the new cap, not by the one in force before.
C14_SettingsNotCached ==
  [][(/\ last.op = "updateSettings" /\ last.result = "ok"
      /\ chain.maxGasPrice # pre.maxGasPrice
      /\ last'.op = "requestExecution" /\ last'.caller = OWNER)
       => (last'.result = "GasPriceExceeded"
             <=> last'.gasPrice > chain.maxGasPrice)]_vars

\* a request at the deployed cap is rejected: the cap had been lowered
C14_Witness ==
  /\ last.op = "requestExecution" /\ last.caller = OWNER
  /\ last.gasPrice = InitMaxGasPrice
  /\ last.result = "GasPriceExceeded"

\* ------------------------------------------------ engine claims C15 .. C16
quoteBack == _getUniswapQuote(quoted.answer2)

\* C15 as stated: for every testAmount > 0, every minProfitBasisPoints (0
\* included) and every pair of leg quotes with quoteBack >= testAmount, what
\* quoteOpportunity returns is profitable = ((quoteBack - testAmount) * 10000
\* / testAmount >= minProfitBasisPoints) and expectedProfit = quoteBack -
\* testAmount.
C15_QuoteFormula ==
  (/\ quoted.called /\ ~quoted.result.reverted
   /\ quoted.testAmount > 0 /\ quoteBack >= quoted.testAmount)
    => /\ quoted.result.profitable =
            (((quoteBack - quoted.testAmount) * 10000) \div quoted.testAmount
                >= quoted.minProfitBasisPoints)
       /\ quoted.result.expectedProfit = quoteBack - quoted.testAmount

\* C15 amended: the formula holds when quoteBack is strictly above testAmount
\* (the call returns unless (quoteBack - testAmount) * 10000 overflows a
\* uint); when quoteBack <= testAmount, break-even included, the result is
\* (false, 0, 0) whatever minProfitBasisPoints is.
C15_QuoteFormulaStrict ==
  (quoted.called /\ quoted.testAmount > 0) =>
     IF quoteBack <= quoted.testAmount
     THEN quoted.result = QuoteResult(FALSE, FALSE, 0, 0)
     ELSE IF (quoteBack - quoted.testAmount) * 10000 > MaxUint
     THEN quoted.result.reverted
     ELSE /\ ~quoted.result.reverted
          /\ quoted.result.profitable =
               (((quoteBack - quoted.testAmount) * 10000)
                    \div quoted.testAmount >= quoted.minProfitBasisPoints)
          /\ quoted.result.expectedProfit = quoteBack - quoted.testAmount

\* the claim's example: 1000 in, 1050 then 1060 quoted, minimum 50
C15_Witness ==
  /\ quoted.called /\ quoted.testAmount = 1000
  /\ _getUniswapQuote(quoted.answer1) = 1050 /\ quoteBack = 1060
  /\ quoted.minProfitBasisPoints = 50
  /\ quoted.result.profitable /\ quoted.result.expectedProfit = 60

\* C16: a failing quote call does not make quoteOpportunity fail, and its
\* result is tagged: the same call with the failed quote replaced by a quote
\* of zero returns something different.
ZeroQuote(answer) == IF answer.ok THEN answer ELSE [ok |-> TRUE, amountOut |-> 0]
C16_QuoteFailureTagged ==
  (quoted.called /\ (~quoted.answer1.ok \/ ~quoted.answer2.ok)) =>
     /\ ~quoted.result.reverted
     /\ quoted.result #
          calculateArbitrageOpportunity(
            [chain EXCEPT !.minProfitBasisPoints = quoted.minProfitBasisPoints],
            quoted.testAmount, ZeroQuote(quoted.answer1),
            ZeroQuote(quoted.answer2))

\* =================================================================== scanner
\* prices in units of 0.0001 dollar, liquidity in dollars; the arithmetic of
\* the scan is exact (the prices used keep every product far below 2^31)
MinLiquidity == 100
LowerBound   == 1
UpperBound   == 10
MinPrice     == 1
MaxPrice     == 1000000000
MaxRatio     == 100
TopK         == 10

TokensToMonitor == <<"WETH", "USDC", "USDbC">>
Missing == "missing"

\* priceUsd as the feed sends it: a decimal string, a decimal followed by
\* other characters, some other text, nothing
Num(v)      == [kind |-> "number", value |-> v]
Prefixed(v) == [kind |-> "prefixed", value |-> v]
Text        == [kind |-> "text", value |-> 0]
NoPrice     == [kind |-> "missing", value |-> 0]
\* liquidity.usd as the feed sends it: a number, a numeric string, nothing
Usd(v)    == [kind |-> "number", usd |-> v]
UsdStr(v) == [kind |-> "string", usd |-> v]
NoUsd     == [kind |-> "missing", usd |-> 0]

Pair(price, usd) ==
  [chainId |-> "base", dexId |-> "uniswap", baseToken |-> "TOKEN",
   quoteToken |-> "QUOTE", priceUsd |-> Num(price), liquidity |-> Usd(usd)]

\* parseFloat: the number the longest decimal prefix of the string denotes,
\* NaN when the string has no such prefix or is missing
NaN == [nan |-> TRUE, value |-> 0]
parseFloat(p) == IF p.kind \in {"number", "prefixed"}
                 THEN [nan |-> FALSE, value |-> p.value]
                 ELSE NaN
\* !price
Falsy(x) == x.nan \/ x.value = 0

\* pair.liquidity?.usd > minLiquidity: undefined compares false, a numeric
\* string is converted
AboveFloor(l) == l.kind # "missing" /\ l.usd > MinLiquidity

Abs(x) == IF x < 0 THEN -x ELSE x
\* priceDiffPercent = |price1 - price2| / ((price1 + price2) / 2) * 100, kept
\* as the fraction num / den
priceDiffPercent(price1, price2) ==
  [num |-> 200 * Abs(price1 - price2), den |-> price1 + price2]
Less(a, b) == a.num * b.den < b.num * a.den

\* priceDiffPercent > 1.0 && priceDiffPercent < 10
InWindow(d) == d.num > LowerBound * d.den /\ d.num < UpperBound * d.den

\* the prices of a candidate are usable: lines 93-97 (the limits 1000000 and
\* 0.000001 of those lines lie outside the band below, so a price they skip
\* is rejected either way), then the band and the ratio of lines 108-110
PricesUsable(price1, price2) ==
  /\ ~Falsy(price1) /\ ~Falsy(price2)
  /\ price1.value > 0 /\ price2.value > 0
  /\ price1.value > MinPrice /\ price2.value > MinPrice
  /\ price1.value < MaxPrice /\ price2.value < MaxPrice
  /\ price1.value < MaxRatio * price2.value
  /\ price2.value < MaxRatio * price1.value

\* the body of the inner loop for one candidate: it throws a TypeError,
\* pushes an opportunity, or goes on
Evaluate(pair1, pair2) ==
  IF pair1.quoteToken = Missing \/ pair2.quoteToken = Missing THEN "throw"
  ELSE IF pair1.quoteToken # pair2.quoteToken THEN "skip"
  ELSE LET price1 == parseFloat(pair1.priceUsd)
           price2 == parseFloat(pair2.priceUsd)
       IN IF /\ PricesUsable(price1, price2)
             /\ InWindow(priceDiffPercent(price1.value, price2.value))
             /\ AboveFloor(pair1.liquidity)
             /\ AboveFloor(pair2.liquidity)
          THEN IF pair1.baseToken = Missing THEN "throw" ELSE "push"
          ELSE "skip"

Opportunity(pair1, pair2) ==
  [tokenIn |-> pair1.baseToken, tokenOut |-> pair1.quoteToken,
   dex1 |-> pair1.dexId, dex2 |-> pair2.dexId,
   price1 |-> pair1.priceUsd, price2 |-> pair2.priceUsd,
   priceDiff |-> priceDiffPercent(parseFloat(pair1.priceUsd).value,
                                  parseFloat(pair2.priceUsd).value),
   liquidity1 |-> pair1.liquidity, liquidity2 |-> pair2.liquidity]

\* getBaseTokenPairs: the pairs on Base, or [] when the request fails or the
\* answer has no pairs
getBaseTokenPairs(response) ==
  IF response.status = "ok"
  THEN SelectSeq(response.pairs, LAMBDA pair : pair.chainId = "base")
  ELSE << >>

\* the two nested loops over pairs[i], pairs[j], i < j: what they push
RECURSIVE Collect(_, _, _)
Collect(pairs, i, j) ==
  IF i >= Len(pairs) THEN << >>
  ELSE IF j > Len(pairs) THEN Collect(pairs, i + 1, i + 2)
  ELSE (IF Evaluate(pairs[i], pairs[j]) = "push"
        THEN << Opportunity(pairs[i], pairs[j]) >> ELSE << >>)
         \o Collect(pairs, i, j + 1)

Throws(pairs) ==
  \E i \in 1..Len(pairs), j \in 1..Len(pairs) :
     i < j /\ Evaluate(pairs[i], pairs[j]) = "throw"

\* opportunities.sort((a, b) => b.priceDiff - a.priceDiff): stable
RECURSIVE InsertAscending(_, _)
InsertAscending(o, sorted) ==
  IF sorted = << >> THEN << o >>
  ELSE IF Less(o.priceDiff, Head(sorted).priceDiff)
       THEN << o >> \o sorted
       ELSE << Head(sorted) >> \o InsertAscending(o, Tail(sorted))
RECURSIVE Insert(_, _)
Insert(o, sorted) ==
  IF sorted = << >> THEN << o >>
  ELSE IF Less(Head(sorted).priceDiff, o.priceDiff)
       THEN << o >> \o sorted
       ELSE << Head(sorted) >> \o Insert(o, Tail(sorted))
RECURSIVE Sort(_)
Sort(os) ==
  IF os = << >> THEN << >>
  ELSE Insert(os[Len(os)], Sort(SubSeq(os, 1, Len(os) - 1)))

\* opportunities.slice(0, 10)
Slice(os, n) == SubSeq(os, 1, IF Len(os) < n THEN Len(os) ELSE n)

\* the opportunities array when the loops are over
RECURSIVE Accepted(_, _)
Accepted(f, t) ==
  IF t > Len(TokensToMonitor) THEN << >>
  ELSE Collect(getBaseTokenPairs(f[t]), 1, 2) \o Accepted(f, t + 1)

Aborted(f) ==
  \E t \in 1..Len(TokensToMonitor) : Throws(getBaseTokenPairs(f[t]))

\* findArbitrageOpportunities: the outer catch returns []
findArbitrageOpportunities(f) ==
  IF Aborted(f) THEN << >> ELSE Slice(Sort(Accepted(f, 1)), TopK)

\* ---- what the feed can answer
Good == Pair(4000, MinLiquidity + 1)
PairVariants ==
  {Pair(3781, MinLiquidity + 1), Pair(3819, MinLiquidity + 1), Good,
   Pair(4179, MinLiquidity + 1), Pair(4200, MinLiquidity + 1),
   Pair(3819, MinLiquidity),
   [Good EXCEPT !.priceUsd = NoPrice],
   [Good EXCEPT !.priceUsd = Text],
   [Good EXCEPT !.liquidity = NoUsd],
   [Pair(4179, MinLiquidity + 1) EXCEPT
       !.liquidity = UsdStr(MinLiquidity + 1), !.dexId = "aerodrome"],
   [Good EXCEPT !.quoteToken = Missing],
   [Good EXCEPT !.baseToken = Missing],
   [Pair(3819, MinLiquidity + 1) EXCEPT !.quoteToken = "OTHER"],
   [Pair(3819, MinLiquidity + 1) EXCEPT !.chainId = "ethereum"]}
CrowdVariants ==
  {Pair(3819, MinLiquidity + 1), Good, Pair(4179, MinLiquidity + 1)}

RECURSIVE SeqsOf(_, _)
SeqsOf(S, n) ==
  IF n = 0 THEN {<< >>}
  ELSE {Append(q, x) : q \in SeqsOf(S, n - 1), x \in S}
UpTo(S, n) == UNION {SeqsOf(S, k) : k \in 0..n}

Answer(pairs) == [status |-> "ok", pairs |-> pairs]
FetchFailed == [status |-> "error", pairs |-> << >>]
NoPairs == [status |-> "nopairs", pairs |-> << >>]

\* the first token's answer varies freely, the other two a little
OtherAnswers ==
  {<<FetchFailed, NoPairs>>,
   <<Answer(<<Pair(3819, MinLiquidity + 1), Pair(4179, MinLiquidity + 1)>>),
     Answer(<< >>)>>}
Feeds(mixed, crowded) ==
  {<<Answer(pairs), rest[1], rest[2]>> :
     pairs \in UpTo(PairVariants, mixed) \cup SeqsOf(CrowdVariants, crowded),
     rest \in OtherAnswers}

NoFeed == <<FetchFailed, FetchFailed, FetchFailed>>
NoScan == [done |-> FALSE, opportunities |-> << >>]

\* prices the feed may send: plausible ones 4.4% apart, one with trailing
\* text, none, text, zero, negative, the ends of the band, one a hundred
\* times smaller than another
PriceVariants ==
  {Good, Pair(4179, MinLiquidity + 1),
   [Good EXCEPT !.priceUsd = Prefixed(4179)],
   [Good EXCEPT !.priceUsd = NoPrice],
   [Good EXCEPT !.priceUsd = Text],
   Pair(0, MinLiquidity + 1), Pair(0 - 4179, MinLiquidity + 1),
   Pair(MinPrice, MinLiquidity + 1), Pair(MaxPrice, MinLiquidity + 1),
   Pair(40, MinLiquidity + 1)}
PriceFeeds(n) ==
  {<<Answer(pairs), FetchFailed, NoPairs>> : pairs \in UpTo(PriceVariants, n)}

\* one call of findArbitrageOpportunities
scan ==
  /\ ~scanned.done
  /\ scanned' = [done |-> TRUE,
                 opportunities |-> findArbitrageOpportunities(feed)]
  /\ UNCHANGED <<engVars, ctlVars, quoted, feed>>

NextScan == scan

\* ------------------------------------------------ scanner claims C17 .. C20
\* the candidates of a scan: token t, pairs i < j of its Base pairs
Candidates ==
  {c \in (1..Len(TokensToMonitor)) \X (1..ManyPairs + 1) \X (1..ManyPairs + 1) :
     c[2] < c[3] /\ c[3] <= Len(getBaseTokenPairs(feed[c[1]]))}
Pair1(c) == getBaseTokenPairs(feed[c[1]])[c[2]]
Pair2(c) == getBaseTokenPairs(feed[c[1]])[c[3]]
Diff(c) == priceDiffPercent(parseFloat(Pair1(c).priceUsd).value,
                            parseFloat(Pair2(c).priceUsd).value)

\* the candidate is complete, on one quote token, with usable prices
Comparable(c) ==
  /\ Pair1(c).quoteToken # Missing /\ Pair1(c).baseToken # Missing
  /\ Pair1(c).quoteToken = Pair2(c).quoteToken
  /\ PricesUsable(parseFloat(Pair1(c).priceUsd), parseFloat(Pair2(c).priceUsd))

Returned(o) == \E k \in 1..Len(scanned.opportunities) :
                  scanned.opportunities[k] = o
\* returned, or left out by the cut to the TopK largest differences
Included(o) ==
  \/ Returned(o)
  \/ /\ Len(scanned.opportunities) = TopK
     /\ \A k \in 1..TopK :
           ~Less(scanned.opportunities[k].priceDiff, o.priceDiff)

\* C17: among the candidates that pass every other filter, one whose
\* priceDiffPercent equals the lower bound, or is at or above the upper
\* bound, is not in the scan result, and one strictly between the bounds is
\* included; every returned opportunity lies strictly between the bounds.
C17_RetentionWindow ==
  scanned.done =>
    /\ \A k \in 1..Len(scanned.opportunities) :
         LET d == scanned.opportunities[k].priceDiff
         IN d.num > LowerBound * d.den /\ d.num < UpperBound * d.den
    /\ \A c \in Candidates :
         (/\ Comparable(c)
          /\ Pair1(c).liquidity.kind # "missing"
          /\ Pair2(c).liquidity.kind # "missing"
          /\ Pair1(c).liquidity.usd > MinLiquidity
          /\ Pair2(c).liquidity.usd > MinLiquidity)
           => IF /\ Diff(c).num > LowerBound * Diff(c).den
                 /\ Diff(c).num < UpperBound * Diff(c).den
              THEN Included(Opportunity(Pair1(c), Pair2(c)))
              ELSE ~Returned(Opportunity(Pair1(c), Pair2(c)))

\* C18: a candidate with the liquidity of either pair at the floor, below it
\* or missing is not in the scan result; one with both liquidities above the
\* floor (one unit suffices) that passes the other filters is included; every
\* returned opportunity has both liquidities strictly above the floor.
C18_LiquidityFloor ==
  scanned.done =>
    /\ \A k \in 1..Len(scanned.opportunities) :
         /\ scanned.opportunities[k].liquidity1.kind # "missing"
         /\ scanned.opportunities[k].liquidity2.kind # "missing"
         /\ scanned.opportunities[k].liquidity1.usd > MinLiquidity
         /\ scanned.opportunities[k].liquidity2.usd > MinLiquidity
    /\ \A c \in Candidates :
         (/\ Comparable(c)
          /\ Diff(c).num > LowerBound * Diff(c).den
          /\ Diff(c).num < UpperBound * Diff(c).den)
           => IF /\ Pair1(c).liquidity.kind # "missing"
                 /\ Pair2(c).liquidity.kind # "missing"
                 /\ Pair1(c).liquidity.usd > MinLiquidity
                 /\ Pair2(c).liquidity.usd > MinLiquidity
              THEN Included(Opportunity(Pair1(c), Pair2(c)))
              ELSE ~Returned(Opportunity(Pair1(c), Pair2(c)))

\* C19: the scan returns at most TopK opportunities, in order of
\* non-increasing priceDiff, all of them accepted candidates, and every
\* accepted candidate it leaves out has a priceDiff no greater than that of
\* every opportunity it returns.
Occurrences(os, o) == Cardinality({k \in 1..Len(os) : os[k] = o})
C19_TopK ==
  scanned.done =>
    LET returned == scanned.opportunities
        accepted == Accepted(feed, 1)
    IN /\ Len(returned) <= TopK
       /\ \A k \in 1..Len(returned) - 1 :
            ~Less(returned[k].priceDiff, returned[k + 1].priceDiff)
       /\ \A k \in 1..Len(returned) :
            Occurrences(returned, returned[k])
              <= Occurrences(accepted, returned[k])
       /\ \A i \in 1..Len(accepted) :
            Occurrences(accepted, accepted[i])
              > Occurrences(returned, accepted[i])
            => \A k \in 1..Len(returned) :
                  ~Less(returned[k].priceDiff, accepted[i].priceDiff)

\* more than TopK candidates were accepted, of different priceDiff, and the
\* scan returned TopK of them
C19_Witness ==
  /\ scanned.done
  /\ Len(Accepted(feed, 1)) > TopK
  /\ Len(scanned.opportunities) = TopK
  /\ Less(scanned.opportunities[TopK].priceDiff,
          scanned.opportunities[1].priceDiff)
  /\ \E i \in 1..Len(Accepted(feed, 1)) :
        Less(Accepted(feed, 1)[i].priceDiff,
             scanned.opportunities[1].priceDiff)
        /\ Occurrences(Accepted(feed, 1), Accepted(feed, 1)[i])
              > Occurrences(scanned.opportunities, Accepted(feed, 1)[i])

\* C20: a pair without quote token, without base token, without price, with
\* a non-numeric price or without liquidity is treated as unusable and does
\* not fail the scan: the scan returns what it returns for the same feed
\* without those pairs.
WellFormed(pair) ==
  /\ pair.quoteToken # Missing /\ pair.baseToken # Missing
  /\ pair.priceUsd.kind = "number"
  /\ pair.liquidity.kind # "missing"
WellFormedOnly(f) ==
  [t \in 1..Len(f) |-> [f[t] EXCEPT !.pairs = SelectSeq(@, WellFormed)]]
C20_MalformedPairsSkipped ==
  scanned.done =>
    scanned.opportunities = findArbitrageOpportunities(WellFormedOnly(feed))

\* C27: the scan returns no opportunity one of whose prices is missing, not
\* a number, zero, negative, outside the band (MinPrice, MaxPrice), or a
\* hundred times the other or more; candidates with such a price are dropped
\* without any other effect: the scan returns what it returns for the same
\* feed without the pairs whose price is implausible.
PlausiblePrice(p) ==
  p.kind = "number" /\ p.value > 0 /\ p.value > MinPrice /\ p.value < MaxPrice
PlausibleOnly(f) ==
  [t \in 1..Len(f) |->
     [f[t] EXCEPT !.pairs =
        SelectSeq(@, LAMBDA pair : PlausiblePrice(pair.priceUsd))]]
C27_PricePlausibility ==
  scanned.done =>
    /\ \A k \in 1..Len(scanned.opportunities) :
         LET o == scanned.opportunities[k]
         IN /\ PlausiblePrice(o.price1) /\ PlausiblePrice(o.price2)
            /\ o.price1.value < MaxRatio * o.price2.value
            /\ o.price2.value < MaxRatio * o.price1.value
    /\ scanned.opportunities = findArbitrageOpportunities(PlausibleOnly(feed))

\* ================================================================ controller
Loops == 1..MaxLoops

\* amounts of ether in units of 0.0001 ETH, gas prices in units of 0.1 gwei,
\* priceDiff in percent, liquidity in dollars
MinBalance        == 5
LoanGood          == 100
LoanMedium        == 10
LoanLow           == 1
LiquidityGood     == 1000
LiquidityMedium   == 100
FallbackGasPrice  == 5
GasLimit          == 300000
ScanInterval      == 30000
ErrorInterval     == 60000
ExecuteThreshold  == 1
NetworkGasPrices  == {FallbackGasPrice + 1}
WalletBalances    == {MinBalance - 1, MinBalance}

NoOpp == [tokenIn |-> "none", tokenOut |-> "none", dex1 |-> "none",
          dex2 |-> "none", price1 |-> NoPrice, price2 |-> NoPrice,
          priceDiff |-> [num |-> 0, den |-> 1],
          liquidity1 |-> NoUsd, liquidity2 |-> NoUsd]
\* what the feed answers while the loop runs: nothing; two pairs a little more
\* than 1% apart; three pairs with deep liquidity, one of them on aerodrome;
\* a pair whose liquidity comes as a string
LoopFeeds ==
  {NoFeed,
   <<Answer(<<Good, Pair(4041, MinLiquidity + 1)>>), FetchFailed, NoPairs>>,
   <<FetchFailed,
     Answer(<<Pair(3819, LiquidityGood), Pair(4000, LiquidityGood),
              [Pair(4179, LiquidityGood) EXCEPT !.dexId = "aerodrome"]>>),
     FetchFailed>>,
   <<Answer(<<Good, [Pair(4179, MinLiquidity + 1) EXCEPT
                        !.liquidity = UsdStr(MinLiquidity + 1)]>>),
     FetchFailed, FetchFailed>>}
\* what findArbitrageOpportunities returns to the loop
ScanResults == {findArbitrageOpportunities(f) : f \in LoopFeeds}

\* balance: the wallet balance executeArbitrage read before it built the
\* submission
NoSub == [loanAmount |-> 0, useAerodrome |-> FALSE, gasPrice |-> 0,
          gasLimit |-> 0, balance |-> 0]
NoResult == [resolved |-> FALSE, success |-> FALSE, error |-> "none"]
Failure(reason) == [resolved |-> TRUE, success |-> FALSE, error |-> reason]
Success == [resolved |-> TRUE, success |-> TRUE, error |-> "none"]

SleepEndsOnFailure(l, ms, res) ==
  /\ pc' = [pc EXCEPT ![l] = IF res.resolved /\ ~res.success THEN "idle"
                              ELSE "wait"]
  /\ waitMs' = [waitMs EXCEPT ![l] = ms]
  /\ outcome' = [outcome EXCEPT ![l] = res]
  /\ opportunities' = [opportunities EXCEPT ![l] = << >>]
  /\ best' = [best EXCEPT ![l] = NoOpp]
  /\ sub' = [sub EXCEPT ![l] = NoSub]
\* the loop reaches `await new Promise(r => setTimeout(r, ms))`: the
\* iteration's block ends, bestOpportunity and the submission go out of scope
Sleep(l, ms, res) ==
  /\ pc' = [pc EXCEPT ![l] = "wait"]
  /\ waitMs' = [waitMs EXCEPT ![l] = ms]
  /\ outcome' = [outcome EXCEPT ![l] = res]
  /\ opportunities' = [opportunities EXCEPT ![l] = << >>]
  /\ best' = [best EXCEPT ![l] = NoOpp]
  /\ sub' = [sub EXCEPT ![l] = NoSub]

\* the loop starts an iteration: it calls findArbitrageOpportunities and
\* is suspended until the scan settles
BeginScan(l) ==
  /\ pc' = [pc EXCEPT ![l] = "scan"]
  /\ opportunities' = [opportunities EXCEPT ![l] = << >>]
  /\ best' = [best EXCEPT ![l] = NoOpp]
  /\ sub' = [sub EXCEPT ![l] = NoSub]
  /\ outcome' = [outcome EXCEPT ![l] = NoResult]
  /\ waitMs' = [waitMs EXCEPT ![l] = 0]

\* the loop state and its bookkeeping, without the endpoint's answer
loopVars == <<contract, isMonitoring, pc, opportunities, best, sub, outcome,
              waitMs, stoppedInWait, stoppedInFlight>>

startArbitrageBotUnguarded ==
  /\ \E l \in Loops :
        /\ pc[l] = "idle"
        /\ \A k \in Loops : pc[k] = "idle" => l <= k
        /\ isMonitoring' = TRUE
        /\ BeginScan(l)
        /\ UNCHANGED <<contract, stoppedInWait, stoppedInFlight>>
        /\ UNCHANGED <<engVars, pureVars>>
\* startArbitrageBot: returns at once when the flag is set, otherwise sets it
\* and runs a new loop up to its first await
startArbitrageBot ==
  IF isMonitoring
  THEN UNCHANGED <<loopVars, engVars, pureVars>>
  ELSE \E l \in Loops :
         /\ pc[l] = "idle"
         /\ \A k \in Loops : pc[k] = "idle" => l <= k
         /\ isMonitoring' = TRUE
         /\ BeginScan(l)
         /\ UNCHANGED <<contract, stoppedInWait, stoppedInFlight>>
         /\ UNCHANGED <<engVars, pureVars>>

\* POST /api/start-bot: 400 when the server holds no contract object,
\* otherwise it calls startArbitrageBot and answers that the bot was started
startBot ==
  IF ~contract
  THEN reply' = "refused" /\ UNCHANGED <<loopVars, engVars, pureVars>>
  ELSE reply' = "started" /\ startArbitrageBot

stopArbitrageBotPreempts ==
  /\ isMonitoring' = FALSE
  /\ pc' = [l \in Loops |-> IF pc[l] \in {"send", "mine"} THEN "idle" ELSE pc[l]]
  /\ stoppedInWait' = {l \in Loops : pc[l] = "wait"}
  /\ stoppedInFlight' = {l \in Loops : pc[l] \in {"send", "mine"}}
  /\ UNCHANGED <<contract, opportunities, best, sub, outcome, waitMs>>
  /\ UNCHANGED <<engVars, pureVars, reply>>
\* stopArbitrageBot (POST /api/stop-bot): clears the flag, nothing else
stopArbitrageBot ==
  /\ isMonitoring' = FALSE
  /\ stoppedInWait' = {l \in Loops : pc[l] = "wait"}
  /\ stoppedInFlight' = {l \in Loops : pc[l] \in {"send", "mine"}}
  /\ UNCHANGED <<contract, pc, opportunities, best, sub, outcome, waitMs>>
  /\ UNCHANGED <<engVars, pureVars, reply>>

\* POST /api/deploy: on success the server holds the new contract
deploy(ok) ==
  /\ contract' = (contract \/ ok)
  /\ UNCHANGED <<isMonitoring, pc, opportunities, best, sub, outcome, waitMs,
                 stoppedInWait, stoppedInFlight>>
  /\ UNCHANGED <<engVars, pureVars, reply>>

\* bestOpportunity.priceDiff > 1.0
AboveThreshold(o) == Less([num |-> ExecuteThreshold, den |-> 1], o.priceDiff)
\* liquidity1.toFixed(0), liquidity2.toFixed(0): a TypeError on a string
ToFixedThrows(o) == o.liquidity1.kind = "string" \/ o.liquidity2.kind = "string"

TopLast(found) == found[Len(found)]
\* const bestOpportunity = opportunities[0]
Top(found) == found[1]

\* the scan settles; the loop runs on to its next await
scanSettles(l, found) ==
  /\ pc[l] = "scan"
  /\ UNCHANGED <<engVars, pureVars, reply>>
  /\ IF Len(found) > 0
     THEN LET bestOpportunity == Top(found) IN
          IF AboveThreshold(bestOpportunity)
          THEN IF ToFixedThrows(bestOpportunity)
               THEN \* the loop's catch
                    Sleep(l, ErrorInterval, NoResult)
               ELSE IF ~contract
               THEN Sleep(l, ScanInterval, Failure("Contract not deployed"))
               ELSE /\ pc' = [pc EXCEPT ![l] = "balance"]
                    /\ opportunities' = [opportunities EXCEPT ![l] = found]
                    /\ best' = [best EXCEPT ![l] = bestOpportunity]
                    /\ UNCHANGED <<sub, outcome, waitMs>>
          ELSE Sleep(l, ScanInterval, NoResult)
     ELSE Sleep(l, ScanInterval, NoResult)
  /\ UNCHANGED <<contract, isMonitoring, stoppedInWait, stoppedInFlight>>

\* the loan amount executeArbitrage picks from the smaller liquidity
LoanAmountFor(o) ==
  LET minLiquidity == IF o.liquidity1.usd < o.liquidity2.usd
                      THEN o.liquidity1.usd ELSE o.liquidity2.usd
  IN IF minLiquidity >= LiquidityGood THEN LoanGood
     ELSE IF minLiquidity >= LiquidityMedium THEN LoanMedium
     ELSE LoanLow

balanceSettlesAnyBalance(l, ok, balance) ==
  /\ pc[l] = "balance"
  /\ UNCHANGED <<engVars, pureVars, reply>>
  /\ IF ~ok
     THEN Sleep(l, ScanInterval, Failure("BalanceUnavailable"))
     ELSE IF FALSE
     THEN Sleep(l, ScanInterval, Failure("Insufficient ETH balance for gas"))
     ELSE /\ pc' = [pc EXCEPT ![l] = "gas"]
          /\ sub' = [sub EXCEPT ![l] =
                       [loanAmount |-> LoanAmountFor(best[l]),
                        useAerodrome |-> (best[l].dex1 = "aerodrome"
                                          \/ best[l].dex2 = "aerodrome"),
                        gasPrice |-> 0, gasLimit |-> GasLimit,
                        balance |-> balance]]
          /\ UNCHANGED <<outcome, waitMs, best, opportunities>>
  /\ UNCHANGED <<contract, isMonitoring, stoppedInWait, stoppedInFlight>>
\* wallet.getBalance() settles
balanceSettles(l, ok, balance) ==
  /\ pc[l] = "balance"
  /\ UNCHANGED <<engVars, pureVars, reply>>
  /\ IF ~ok
     THEN Sleep(l, ScanInterval, Failure("BalanceUnavailable"))
     ELSE IF balance < MinBalance
     THEN Sleep(l, ScanInterval, Failure("Insufficient ETH balance for gas"))
     ELSE /\ pc' = [pc EXCEPT ![l] = "gas"]
          /\ sub' = [sub EXCEPT ![l] =
                       [loanAmount |-> LoanAmountFor(best[l]),
                        useAerodrome |-> (best[l].dex1 = "aerodrome"
                                          \/ best[l].dex2 = "aerodrome"),
                        gasPrice |-> 0, gasLimit |-> GasLimit,
                        balance |-> balance]]
          /\ UNCHANGED <<outcome, waitMs, best, opportunities>>
  /\ UNCHANGED <<contract, isMonitoring, stoppedInWait, stoppedInFlight>>

\* getOptimalGasPrice settles (the fallback on failure), and the transaction
\* is handed to the provider
gasSettles(l, ok, gasPrice) ==
  /\ pc[l] = "gas"
  /\ UNCHANGED <<engVars, pureVars, reply>>
  /\ pc' = [pc EXCEPT ![l] = "send"]
  /\ sub' = [sub EXCEPT ![l].gasPrice = IF ok THEN gasPrice
                                        ELSE FallbackGasPrice]
  /\ UNCHANGED <<contract, isMonitoring, opportunities, best, outcome, waitMs,
                 stoppedInWait, stoppedInFlight>>

\* contract.executeFlashLoanArbitrage(...) settles: sent, or rejected
sendSettles(l, ok) ==
  /\ pc[l] = "send"
  /\ UNCHANGED <<engVars, pureVars, reply>>
  /\ IF ok
     THEN /\ pc' = [pc EXCEPT ![l] = "mine"]
          /\ UNCHANGED <<outcome, waitMs, opportunities, best, sub>>
     ELSE Sleep(l, ScanInterval, Failure("SubmissionRejected"))
  /\ UNCHANGED <<contract, isMonitoring, stoppedInWait, stoppedInFlight>>

\* tx.wait() settles: mined, or reverted / timed out
mineSettles(l, ok) ==
  /\ pc[l] = "mine"
  /\ UNCHANGED <<engVars, pureVars, reply>>
  /\ Sleep(l, ScanInterval, IF ok THEN Success ELSE Failure("Reverted"))
  /\ UNCHANGED <<contract, isMonitoring, stoppedInWait, stoppedInFlight>>

\* the timer fires and the loop tests while (isMonitoring)
timerFires(l) ==
  /\ pc[l] = "wait"
  /\ UNCHANGED <<engVars, pureVars, reply>>
  /\ IF isMonitoring
     THEN BeginScan(l)
     ELSE /\ pc' = [pc EXCEPT ![l] = "idle"]
          /\ opportunities' = [opportunities EXCEPT ![l] = << >>]
          /\ best' = [best EXCEPT ![l] = NoOpp]
          /\ sub' = [sub EXCEPT ![l] = NoSub]
          /\ outcome' = [outcome EXCEPT ![l] = NoResult]
          /\ waitMs' = [waitMs EXCEPT ![l] = 0]
  /\ stoppedInWait' = IF isMonitoring THEN stoppedInWait
                      ELSE stoppedInWait \ {l}
  /\ stoppedInFlight' = stoppedInFlight \ {l}
  /\ UNCHANGED <<contract, isMonitoring>>

NextCtl ==
  \/ startBot
  \/ stopArbitrageBot
  \/ \E ok \in BOOLEAN : deploy(ok)
  \/ \E l \in Loops, o \in ScanResults : scanSettles(l, o)
  \/ \E l \in Loops, ok \in BOOLEAN, b \in WalletBalances :
        balanceSettles(l, ok, b)
  \/ \E l \in Loops, ok \in BOOLEAN, g \in NetworkGasPrices :
        gasSettles(l, ok, g)
  \/ \E l \in Loops, ok \in BOOLEAN : sendSettles(l, ok)
  \/ \E l \in Loops, ok \in BOOLEAN : mineSettles(l, ok)
  \/ \E l \in Loops : timerFires(l)

\* --------------------------------------------- controller claims C7 .. C10
Alive == {l \in Loops : pc[l] # "idle"}
InFlight == {l \in Loops : pc[l] \in {"send", "mine"}}

\* C7: at most one control-loop iteration is in progress and at most one
\* requestExecution submission is outstanding, whatever the interleaving of
\* start and stop requests with the loop's suspension points.
C7_SingleFlight == Cardinality(Alive) <= 1 /\ Cardinality(InFlight) <= 1

\* C8: a loop that was sleeping when stop was called performs no scan and no
\* execution afterwards: it stays asleep until it observes the flag and ends.
C8_StopInWaitEndsLoop == \A l \in stoppedInWait : pc[l] = "wait"

\* C9: a stop never pre-empts a submission in flight: the submission is left
\* as it is, the only way out of it is its outcome being recorded, and a loop
\* ends only at the test of the run flag that follows a sleep.
C9_NoPreemption ==
  [][\A l \in Loops :
       /\ pc[l] \in {"send", "mine"} =>
            /\ pc'[l] \in {"send", "mine", "wait"}
            /\ pc'[l] \in {"send", "mine"} => sub'[l] = sub[l]
            /\ pc'[l] = "wait" => outcome'[l].resolved
       /\ (pc[l] # "idle" /\ pc'[l] = "idle") =>
            (pc[l] = "wait" /\ ~isMonitoring)]_vars

\* stop came while the submission was in flight, and its outcome was recorded
C9_Witness ==
  \E l \in stoppedInFlight :
     /\ pc[l] = "wait" /\ ~isMonitoring
     /\ outcome[l].resolved /\ outcome[l].success

\* C10: after a failed execution attempt (the submission was rejected or
\* timed out, or the engine reverted) the loop sleeps the longer interval,
\* not the normal inter-scan interval.
C10_FailureCoolsDown ==
  \A l \in Loops :
     (pc[l] = "wait" /\ outcome[l].error \in {"SubmissionRejected", "Reverted"})
        => waitMs[l] = ErrorInterval

\* the steps of loop l that the runtime takes by itself: an awaited call
\* settles (fetch, provider and wallet calls all resolve or reject), a timer
\* fires
LoopStep(l) ==
  \/ \E o \in ScanResults : scanSettles(l, o)
  \/ \E ok \in BOOLEAN, b \in WalletBalances : balanceSettles(l, ok, b)
  \/ \E ok \in BOOLEAN, g \in NetworkGasPrices : gasSettles(l, ok, g)
  \/ \E ok \in BOOLEAN : sendSettles(l, ok)
  \/ \E ok \in BOOLEAN : mineSettles(l, ok)
  \/ timerFires(l)

\* C11: no failure ends the control loop.  Whatever an iteration met (scan
\* empty or failed, balance or gas lookup failed, submission rejected,
\* reverted or mined), a loop ends only once stop has cleared the run flag,
\* and as long as the flag stays set it begins a scan again and again;
\* timers fire and awaited calls settle.
C11_LoopContinues ==
  /\ [][\A l \in Loops :
          (pc[l] # "idle" /\ pc'[l] = "idle") => ~isMonitoring]_vars
  /\ \A l \in Loops : []<>(pc[l] \in {"idle", "scan"} \/ ~isMonitoring)

\* a loop asleep after a failed attempt, the run flag still set
C11_Witness ==
  \E l \in Loops :
     /\ pc[l] = "wait" /\ isMonitoring
     /\ outcome[l].resolved /\ ~outcome[l].success

\* ------------------------------------------------ engine claims C24, C25
\* C24: when the callback has made its two swaps and the profit it computed
\* is not strictly positive, it fails with UnprofitableTrade, also when the
\* balance is short of amount + premium at the same time; it fails with
\* InsufficientRepayment only when the profit is positive and the balance is
\* short.
C24_ProfitCheckedFirst ==
  (tx.pc = "idle"
     /\ last.result \in {"UnprofitableTrade", "InsufficientRepayment"}) =>
       /\ last.profit = 0 => last.result = "UnprofitableTrade"
       /\ last.result = "InsufficientRepayment" =>
             (last.profit > 0 /\ last.assetAfter < last.amount + last.premium)

\* the callback made its swaps and reached its two requirements
ReachedChecks ==
  /\ tx.pc = "idle" /\ last.op = "requestExecution"
  /\ last.result \in {"ok", "UnprofitableTrade", "InsufficientRepayment"}

\* C25: with useAerodrome set, leg 2 turns the intermediate token back into
\* tokenIn: the balance of tokenIn after leg 2 is the balance after leg 1
\* (the start balance less the amount leg 1 spent) plus what leg 2 reported,
\* and the execution succeeds whenever that output exceeds the amount spent
\* and the asset balance covers amount + premium.
C25_AlternateVenue ==
  (ReachedChecks /\ last.useAerodrome) =>
     /\ last.endBalance
          = last.startBalance - last.amount + last.secondSwapOut
     /\ (/\ last.secondSwapOut > last.amount
         /\ last.assetAfter >= last.amount + last.premium)
           => last.result = "ok"

\* C29: the guard of requestExecution is locked exactly while a
\* requestExecution is in progress; a requestExecution made from inside one
\* is rejected (as re-entrant when the owner makes it); once a
\* requestExecution has ended, with success or with any failure, the guard
\* is free again and no top-level requestExecution of the owner is rejected
\* as re-entrant.
C29_GuardWhileInProgress ==
  /\ chain.status = ENTERED <=> (tx.pc # "idle" /\ tx.op = "requestExecution")
  /\ reent.op = "requestExecution" =>
        /\ reent.result # "ok"
        /\ reent.sender = OWNER => reent.result = "ReentrancyBlocked"
  /\ (tx.pc = "idle" /\ last.op = "requestExecution") =>
        last.result # "ReentrancyBlocked"

\* a requestExecution of the owner has failed after its swaps and the guard
\* is free
C29_Witness ==
  /\ tx.pc = "idle" /\ last.op = "requestExecution" /\ last.caller = OWNER
  /\ last.result \in {"UnprofitableTrade", "InsufficientRepayment",
                      "SwapFailed"}
  /\ chain.status = NOT_ENTERED

\* ------------------------------------------------ owner claims C22 .. C23
\* the rest of the ledger is as it was when the call began
OnlyHoldingChanged(token) ==
  /\ \A t \in Tokens \ {token} : chain.bal[t] = pre.bal[t]
  /\ chain.allow = pre.allow /\ chain.status = pre.status
  /\ chain.maxGasPrice = pre.maxGasPrice
  /\ chain.minProfitBasisPoints = pre.minProfitBasisPoints
  /\ chain.maxSlippage = pre.maxSlippage
WithdrawnTokens ==
  /\ last.result = "ok" /\ chain.bal[last.asset] = 0
  /\ last.paidTo = OWNER /\ last.amount = pre.bal[last.asset]
  /\ chain.logs = <<[token |-> last.asset, amount |-> pre.bal[last.asset]]>>
  /\ OnlyHoldingChanged(last.asset) /\ chain.eth = pre.eth
WithdrawnReserve(logs) ==
  /\ last.result = "ok" /\ chain.eth = 0
  /\ last.paidTo = OWNER /\ last.amount = pre.eth
  /\ chain.logs = logs
  /\ chain.bal = pre.bal /\ OnlyHoldingChanged("none")
NothingWithdrawn == last.result = "NothingToWithdraw" /\ chain = pre

Settings(c) ==
  [minProfitBasisPoints |-> c.minProfitBasisPoints,
   maxGasPrice |-> c.maxGasPrice, maxSlippage |-> c.maxSlippage]

\* C23: the Settings change only in a step that is a successful
\* updateSettings called by the owner; such a call leaves the Settings equal
\* to its three arguments, whatever their values; an updateSettings that
\* fails, and every other operation, succeeding or failing, leaves the
\* Settings as they were.
C23_SettingsFrame ==
  /\ [][Settings(chain') # Settings(chain) =>
          /\ last'.op = "updateSettings" /\ last'.caller = OWNER
          /\ last'.result = "ok" /\ last' # last]_vars
  /\ [](last.op = "updateSettings" =>
          IF last.result = "ok"
          THEN last.caller = OWNER /\ Settings(chain) = last.given
          ELSE chain = pre)

\* the owner has just set a zero profit threshold, a lower gas cap and a zero
\* slippage, and they are in force
C23_Witness ==
  /\ last.op = "updateSettings" /\ last.result = "ok"
  /\ last.given.minProfitBasisPoints = 0 /\ last.given.maxSlippage = 0
  /\ Settings(chain) = last.given /\ Settings(pre) # Settings(chain)

\* ------------------------------------------- controller claims C21 .. C30
Executing == {l \in Loops : pc[l] \in {"balance", "gas", "send", "mine"}}

\* C21: the loop is executing only an opportunity whose priceDiff exceeds the
\* execution threshold, and that threshold is strictly higher than the lower
\* bound above which the scanner retains an opportunity (so that a retained
\* top result can lie at or below it and be skipped).
C21_StricterThreshold ==
  \A l \in Executing :
     /\ AboveThreshold(best[l])
     /\ ExecuteThreshold > LowerBound

\* C26: an iteration makes at most one execution attempt (it enters
\* executeArbitrage only from its scan and leaves it only to sleep), the
\* opportunity it executes is the first of the scan result of that iteration,
\* whose priceDiff no other returned opportunity exceeds, the submission is
\* built from it, and outside an attempt the loop holds no opportunity, so
\* that none is carried into a later iteration.
C26_TopOfThisScan ==
  /\ [](\A l \in Loops :
          IF l \in Executing
          THEN /\ Len(opportunities[l]) > 0
               /\ best[l] = opportunities[l][1]
               /\ \A k \in 1..Len(opportunities[l]) :
                     ~Less(best[l].priceDiff, opportunities[l][k].priceDiff)
               /\ pc[l] # "balance" =>
                     sub[l].loanAmount = LoanAmountFor(best[l])
          ELSE best[l] = NoOpp /\ opportunities[l] = << >>)
  /\ [][\A l \in Loops :
          /\ (l \notin Executing /\ pc'[l] \in {"balance", "gas", "send", "mine"})
               => (pc[l] = "scan" /\ pc'[l] = "balance")
          /\ l \in Executing =>
               /\ pc'[l] \in {"balance", "gas", "send", "mine", "wait"}
               /\ pc'[l] = "balance" => pc[l] = "balance"
               /\ pc'[l] # "wait" => (best'[l] = best[l]
                                      /\ opportunities'[l] = opportunities[l])]_vars

\* a submission is in flight for the largest of several opportunities
C26_Witness ==
  \E l \in Loops :
     /\ pc[l] = "mine" /\ Len(opportunities[l]) > 1
     /\ Less(opportunities[l][2].priceDiff, best[l].priceDiff)
     /\ sub[l].loanAmount = LoanAmountFor(best[l])

\* no loop was started and the loops are as they were
NoChange ==
  UNCHANGED <<contract, isMonitoring, pc, opportunities, best, sub, outcome,
              waitMs>>
\* the flag is set and exactly one loop came to life, suspended in its scan
StartsOneLoop ==
  /\ isMonitoring' /\ contract' = contract
  /\ \E l \in Loops :
        /\ pc[l] = "idle" /\ pc'[l] = "scan"
        /\ \A k \in Loops \ {l} :
              /\ pc'[k] = pc[k] /\ best'[k] = best[k] /\ sub'[k] = sub[k]
              /\ opportunities'[k] = opportunities[k]
              /\ outcome'[k] = outcome[k] /\ waitMs'[k] = waitMs[k]

\* C28 as stated: a start request made while the run flag is set starts no
\* loop and leaves the controller as it was; a start request made while the
\* flag is not set sets it and starts exactly one loop, which begins with a
\* scan.
C28_StartIdempotent ==
  [][startBot => IF isMonitoring THEN NoChange ELSE StartsOneLoop]_vars

\* C28 amended: as above when the server holds an engine object; when it
\* holds none the request is refused and nothing is started.
C28_StartNeedsEngine ==
  [][startBot => IF ~contract THEN NoChange /\ reply' = "refused"
                 ELSE IF isMonitoring THEN NoChange
                 ELSE StartsOneLoop]_vars

\* the start request was accepted, the flag is set and one loop is scanning
C28_Witness ==
  /\ reply = "started" /\ isMonitoring
  /\ Cardinality(Alive) = 1
  /\ \A l \in Alive : pc[l] = "scan"

\* C30: a submission is built and sent only when the server holds an engine
\* object and the wallet balance read is at least MinBalance; when the
\* balance is too low, or cannot be read, executeArbitrage builds no
\* submission and returns a failure with its reason, and the loop goes on to
\* its ordinary sleep.
C30_SubmitPreconditions ==
  /\ [](\A l \in Loops :
          /\ l \in Executing => contract
          /\ pc[l] \in {"gas", "send", "mine"} => sub[l].balance >= MinBalance
          /\ pc[l] \notin {"gas", "send", "mine"} => sub[l] = NoSub)
  /\ [][\A l \in Loops :
          (pc[l] = "balance" /\ pc'[l] # "balance") =>
             \/ pc'[l] = "gas" /\ sub'[l].balance >= MinBalance
             \/ /\ pc'[l] = "wait" /\ waitMs'[l] = ScanInterval
                /\ outcome'[l].resolved /\ ~outcome'[l].success
                /\ outcome'[l].error # "none"]_vars

\* the balance was below MinBalance: a failed outcome, no submission, and the
\* loop asleep for the ordinary interval
C30_Witness ==
  \E l \in Loops :
     /\ pc[l] = "wait" /\ waitMs[l] = ScanInterval /\ sub[l] = NoSub
     /\ outcome[l].resolved /\ ~outcome[l].success
     /\ outcome[l].error = "Insufficient ETH balance for gas"

\* the engine, with the controller left idle
Init ==
  /\ chain \in InitialChains
  /\ pre = chain
  /\ tx = IdleTx
  /\ last = NoCall
  /\ reent = NoReent
  /\ contract = TRUE
  /\ isMonitoring = FALSE
  /\ pc = [l \in Loops |-> "idle"]
  /\ opportunities = [l \in Loops |-> << >>]
  /\ best = [l \in Loops |-> NoOpp]
  /\ sub = [l \in Loops |-> NoSub]
  /\ outcome = [l \in Loops |-> NoResult]
  /\ waitMs = [l \in Loops |-> 0]
  /\ stoppedInWait = {}
  /\ stoppedInFlight = {}
  /\ reply = "none"
  /\ quoted = NoQuote
  /\ feed = NoFeed
  /\ scanned = NoScan

\* the engine and its owner
OwnerInit ==
  /\ chain \in InitialChains
  /\ pre = chain
  /\ tx = IdleTx
  /\ last = NoCall
  /\ reent = NoReent
  /\ contract = TRUE
  /\ isMonitoring = FALSE
  /\ pc = [l \in Loops |-> "idle"]
  /\ opportunities = [l \in Loops |-> << >>]
  /\ best = [l \in Loops |-> NoOpp]
  /\ sub = [l \in Loops |-> NoSub]
  /\ outcome = [l \in Loops |-> NoResult]
  /\ waitMs = [l \in Loops |-> 0]
  /\ stoppedInWait = {}
  /\ stoppedInFlight = {}
  /\ reply = "none"
  /\ quoted = NoQuote
  /\ feed = NoFeed
  /\ scanned = NoScan

\* the engine freshly deployed, asked for quotes
QuoteInit ==
  /\ chain \in {c \in InitialChains : \A t \in Tokens : c.bal[t] = 0}
  /\ pre = chain
  /\ tx = IdleTx
  /\ last = NoCall
  /\ reent = NoReent
  /\ contract = TRUE
  /\ isMonitoring = FALSE
  /\ pc = [l \in Loops |-> "idle"]
  /\ opportunities = [l \in Loops |-> << >>]
  /\ best = [l \in Loops |-> NoOpp]
  /\ sub = [l \in Loops |-> NoSub]
  /\ outcome = [l \in Loops |-> NoResult]
  /\ waitMs = [l \in Loops |-> 0]
  /\ stoppedInWait = {}
  /\ stoppedInFlight = {}
  /\ reply = "none"
  /\ quoted = NoQuote
  /\ feed = NoFeed
  /\ scanned = NoScan

\* the scanner in front of a feed
ScanInit ==
  /\ chain \in {c \in InitialChains : \A t \in Tokens : c.bal[t] = 0}
  /\ pre = chain
  /\ tx = IdleTx
  /\ last = NoCall
  /\ reent = NoReent
  /\ contract = FALSE
  /\ isMonitoring = FALSE
  /\ pc = [l \in Loops |-> "idle"]
  /\ opportunities = [l \in Loops |-> << >>]
  /\ best = [l \in Loops |-> NoOpp]
  /\ sub = [l \in Loops |-> NoSub]
  /\ outcome = [l \in Loops |-> NoResult]
  /\ waitMs = [l \in Loops |-> 0]
  /\ stoppedInWait = {}
  /\ stoppedInFlight = {}
  /\ reply = "none"
  /\ quoted = NoQuote
  /\ feed \in Feeds(MaxPairs, ManyPairs)
  /\ scanned = NoScan

\* the scanner in front of a feed whose prices vary
PriceInit ==
  /\ chain \in {c \in InitialChains : \A t \in Tokens : c.bal[t] = 0}
  /\ pre = chain
  /\ tx = IdleTx
  /\ last = NoCall
  /\ reent = NoReent
  /\ contract = FALSE
  /\ isMonitoring = FALSE
  /\ pc = [l \in Loops |-> "idle"]
  /\ opportunities = [l \in Loops |-> << >>]
  /\ best = [l \in Loops |-> NoOpp]
  /\ sub = [l \in Loops |-> NoSub]
  /\ outcome = [l \in Loops |-> NoResult]
  /\ waitMs = [l \in Loops |-> 0]
  /\ stoppedInWait = {}
  /\ stoppedInFlight = {}
  /\ reply = "none"
  /\ quoted = NoQuote
  /\ feed \in PriceFeeds(MaxPairs)
  /\ scanned = NoScan

\* the controller after the module is loaded, with the engine left alone
CtlInit ==
  /\ chain \in {c \in InitialChains : \A t \in Tokens : c.bal[t] = 0}
  /\ pre = chain
  /\ tx = IdleTx
  /\ last = NoCall
  /\ reent = NoReent
  /\ contract = FALSE
  /\ isMonitoring = FALSE
  /\ pc = [l \in Loops |-> "idle"]
  /\ opportunities = [l \in Loops |-> << >>]
  /\ best = [l \in Loops |-> NoOpp]
  /\ sub = [l \in Loops |-> NoSub]
  /\ outcome = [l \in Loops |-> NoResult]
  /\ waitMs = [l \in Loops |-> 0]
  /\ stoppedInWait = {}
  /\ stoppedInFlight = {}
  /\ reply = "none"
  /\ quoted = NoQuote
  /\ feed = NoFeed
  /\ scanned = NoScan

Spec == Init /\ [][NextEngine]_vars

OwnerSpec == OwnerInit /\ [][NextOwner]_vars

QuoteSpec == QuoteInit /\ [][NextQuote]_vars

ScanSpec == ScanInit /\ [][NextScan]_vars

PriceSpec == PriceInit /\ [][NextScan]_vars

CtlSpec == CtlInit /\ [][NextCtl]_vars

\* the controller under the runtime's scheduling: every pending promise of a
\* loop settles and every timer fires
CtlFairSpec ==
  CtlInit /\ [][NextCtl]_vars /\ \A l \in Loops : WF_vars(LoopStep(l))
====
